---- MODULE Spec2Model ----
(***************************************************************************)
(* State-machine model of chatter/chatterDB.py: the five SQLite tables,    *)
(* the User and Message handles (snapshots taken by __init__) and the      *)
(* operations of User, Chatroom, Message and Attachment.                   *)
(*                                                                         *)
(* The connection is opened by connect_db without PRAGMA foreign_keys, so  *)
(* SQLite does not enforce the FOREIGN KEY clauses of the schema.  A build *)
(* of SQLite that enforces them makes the DELETE of User.delete fail; that *)
(* outcome is covered by the storage fault "delete" below.                 *)
(***************************************************************************)
EXTENDS Integers, Sequences, FiniteSets, TLC

VARIABLES
    User,            \* table User: userid -> row
    UserSeq,         \* sqlite_sequence entry of User (AUTOINCREMENT)
    Chatroom,        \* table Chatroom: chatroomid -> row
    ChatroomMember,  \* table ChatroomMember: set of rows
    Message,         \* table Message: messageid -> row
    Attachment,      \* table Attachment: attachmentid -> row
    handles,         \* the User objects callers may hold: every snapshot
                     \* User.__init__ has been able to take of a committed row
    MessageSeq,      \* sqlite_sequence entry of Message (AUTOINCREMENT)
    AttachmentSeq,   \* sqlite_sequence entry of Attachment (AUTOINCREMENT)
    messageHandles,  \* the Message objects callers may hold, each with the
                     \* attachment list it loaded
    lastOp,          \* the last call: its arguments and what the caller got
    created,         \* every message Message.create has stored: its messageid
                     \* and its chatroomid
    client           \* a client of a chatroom: the highest messageid it has seen
                     \* and the messageids it has received

vars == <<User, UserSeq, Chatroom, ChatroomMember, Message, Attachment, handles,
          MessageSeq, AttachmentSeq, messageHandles, lastOp, created, client>>

tables == <<User, UserSeq, Chatroom, ChatroomMember, Message, Attachment,
            MessageSeq, AttachmentSeq>>

(***************************************************************************)
(* Bounds of the model.                                                    *)
(***************************************************************************)
\* largest userid AUTOINCREMENT may hand out
MaxUserId == 3
\* largest value int(time.time()) is read as
MaxTime == 1

\* largest messageid AUTOINCREMENT may hand out
MaxMessageId == 4
\* largest attachmentid AUTOINCREMENT may hand out
MaxAttachmentId == 2

\* User.create accepts passwords of at least this length
MinPasswordLen == 8

RoomIds == {1, 2}

\* the users of the fixture that hold memberships
MemberIds == {1, 2}

CreateUsernames == {"NewUser"}
CreatePasswords == {"password1", "short"}
LoginUsernames == {"NewUser", "DeletedUser", "Nobody"}
LoginPasswords == {"password1", ""}

\* storage failures injected into the transaction of User.delete
Faults == {"none", "update", "delete", "commit"}

(***************************************************************************)
(* Rows and handles.                                                       *)
(***************************************************************************)
UserRow(username, password, ts, admin, active) ==
    [username |-> username, password |-> password, last_login_ts |-> ts,
     admin |-> admin, active |-> active]

\* User.__init__: the snapshot of row id of table users
UserInit(users, id) ==
    [userid |-> id,
     username |-> users[id].username,
     last_login_ts |-> users[id].last_login_ts,
     admin |-> IF users[id].admin = 1 THEN TRUE ELSE FALSE,
     active |-> IF users[id].active = 1 THEN TRUE ELSE FALSE]

\* every User object constructible from the rows of users
Snapshots(users) == {UserInit(users, id) : id \in DOMAIN users}

\* a call record: op, the arguments (self by its id, the admin property of
\* authorised_user, username, password, new_password, revoke, content,
\* chatroomid, senderid, filepath, since), the reading of time.time() in half
\* seconds, the storage fault met, the exception raised to the caller with
\* the variable part of its message, the exception caught and printed, the
\* id of the object returned, the ids of the objects of a returned list and
\* the admin property of self before and after the call, the userid of
\* authorised_user and the owners and members lists of a Chatroom loaded
NoOp ==
    [op |-> "init", self |-> -1, admin |-> FALSE,
     username |-> "", password |-> "", new_password |-> "", revoke |-> FALSE,
     content |-> "", chatroomid |-> -1, senderid |-> -1, filepath |-> "",
     since |-> -1, time |-> 0, fault |-> "none",
     raised |-> "none", message |-> "", printed |-> "none", returned |-> -1,
     result |-> <<>>, admin_before |-> FALSE, admin_after |-> FALSE,
     acting |-> -1, owners |-> <<>>, members |-> <<>>]

(***************************************************************************)
(* The store after InitDB.initialise and the fixture of tests/tests.py,    *)
(* scaled down: the sentinel, one user, one admin, two chatrooms, three    *)
(* messages and one attachment.  The memberships range over every table    *)
(* of the two users in the two chatrooms in which each chatroom that has   *)
(* a membership row has an owner.                                          *)
(***************************************************************************)
SentinelRow == UserRow("DeletedUser", "", 0, 0, 0)

InitUser ==
    (0 :> SentinelRow)
    @@ (1 :> UserRow("TestUser1", "test1", 0, 0, 1))
    @@ (2 :> UserRow("TestAdmin", "testadmin", 0, 1, 1))

Max(S) == CHOOSE x \in S : \A y \in S : y <= x

\* sqlite_sequence of User after the fixture's rows
InitUserSeq == Max(DOMAIN InitUser)

InitChatroom ==
    (1 :> [name |-> "TestRoom1", description |-> "A test chatroom"])
    @@ (2 :> [name |-> "TestRoom2", description |-> "A test chatroom"])

InitMessage ==
    (1 :> [content |-> "first", chatroomid |-> 1, senderid |-> 1, timestamp |-> 0])
    @@ (2 :> [content |-> "second", chatroomid |-> 1, senderid |-> 2, timestamp |-> 0])
    @@ (3 :> [content |-> "third", chatroomid |-> 2, senderid |-> 1, timestamp |-> 0])

InitAttachment ==
    (1 :> [messageid |-> 1, filepath |-> "donald.png"])

\* the ids of S in ascending order: the order in which SQLite scans the rowids
\* of a table for a SELECT that names no other order
RECURSIVE Ascending(_)
Ascending(S) ==
    IF S = {} THEN <<>>
    ELSE LET least == CHOOSE x \in S : \A y \in S : x <= y
         IN  <<least>> \o Ascending(S \ {least})

\* Attachment.__init__: the snapshot of row id of table atts
AttachmentInit(atts, id) ==
    [attachmentid |-> id, messageid |-> atts[id].messageid, filepath |-> atts[id].filepath]

\* Attachment.get_attachments_for_message:
\* SELECT attachmentid FROM Attachment WHERE messageid=?, an object for each row
get_attachments_for_message(atts, messageid) ==
    LET attachments_data == Ascending({id \in DOMAIN atts : atts[id].messageid = messageid})
    IN  [i \in 1..Len(attachments_data) |-> AttachmentInit(atts, attachments_data[i])]

\* Message.__init__: the snapshot of row id of table msgs with its attachments
MessageInit(msgs, atts, id) ==
    [messageid |-> id,
     content |-> msgs[id].content,
     chatroomid |-> msgs[id].chatroomid,
     senderid |-> msgs[id].senderid,
     timestamp |-> msgs[id].timestamp,
     attachments |-> get_attachments_for_message(atts, id)]

\* every Message object constructible from the rows of msgs and atts
MessageSnapshots(msgs, atts) == {MessageInit(msgs, atts, id) : id \in DOMAIN msgs}

MemberRow(c, u, o) == [chatroomid |-> c, userid |-> u, owner |-> o]

\* the rows of chatroom c in the membership table cm
RowsOf(cm, c) == {r \in cm : r.chatroomid = c}

\* chatroom c has no membership row, or one of its rows is an owner row
HasOwnerIfMembers(cm, c) ==
    RowsOf(cm, c) # {} => \E r \in RowsOf(cm, c) : r.owner = 1

\* the tables init_chatroom_members may insert: PRIMARY KEY (chatroomid, userid)
InitChatroomMembers ==
    {cm \in SUBSET {MemberRow(c, u, o) : c \in RoomIds, u \in MemberIds, o \in {0, 1}} :
        /\ \A r1, r2 \in cm :
              (r1.chatroomid = r2.chatroomid /\ r1.userid = r2.userid) => r1 = r2
        /\ \A c \in RoomIds : HasOwnerIfMembers(cm, c)}

Init ==
    /\ User = InitUser
    /\ UserSeq = InitUserSeq
    /\ Chatroom = InitChatroom
    /\ ChatroomMember \in InitChatroomMembers
    /\ Message = InitMessage
    /\ Attachment = InitAttachment
    /\ handles = Snapshots(InitUser)
    /\ MessageSeq = Max(DOMAIN InitMessage)
    /\ AttachmentSeq = Max(DOMAIN InitAttachment)
    /\ messageHandles = MessageSnapshots(InitMessage, InitAttachment)
    /\ lastOp = NoOp
    /\ created = {}
    /\ client = [cursor |-> 0, received |-> {}]

(***************************************************************************)
(* User.retrieve / User.__init__: loading changes no table.  Callers may   *)
(* load at any moment and keep the object, so handles holds the snapshot   *)
(* of every row version that has been committed.                           *)
(***************************************************************************)
UserRetrieve(id) ==
    /\ lastOp' = IF id \in DOMAIN User
                 THEN [NoOp EXCEPT !.op = "retrieve", !.returned = id]
                 ELSE [NoOp EXCEPT !.op = "retrieve", !.raised = "UserNotFound"]
    /\ UNCHANGED <<tables, handles, messageHandles, client, created>>

(***************************************************************************)
(* User.delete                                                             *)
(***************************************************************************)
\* SELECT chatroomid FROM ChatroomMember WHERE userid=? AND owner=1
chatrooms_owned(cm, uid) ==
    {r.chatroomid : r \in {x \in cm : x.userid = uid /\ x.owner = 1}}

\* SELECT userid FROM ChatroomMember WHERE chatroomid=? and owner=1 and userid != ?
chatroom_data(cm, c, uid) ==
    {r.userid : r \in {x \in cm : x.chatroomid = c /\ x.owner = 1 /\ x.userid # uid}}

\* (mutant) only the first chatroom the user owns is checked
SoleOwnerFirstRoomOnly(cm, uid) ==
    /\ chatrooms_owned(cm, uid) # {}
    /\ LET first == CHOOSE c \in chatrooms_owned(cm, uid) :
                        \A d \in chatrooms_owned(cm, uid) : c <= d
       IN  chatroom_data(cm, first, uid) = {}

\* the loop over chatrooms_owned raises UserDeletionError at the first
\* chatroom that has no other owner
SoleOwner(cm, uid) ==
    \E c \in chatrooms_owned(cm, uid) : chatroom_data(cm, c, uid) = {}

\* (mutant) the messages of the user are deleted with the user
DeleteMessagesOfSender(msgs, uid) ==
    [m \in {x \in DOMAIN msgs : msgs[x].senderid # uid} |-> msgs[m]]

\* UPDATE Message SET senderid=0 WHERE senderid=?
ReassignMessages(msgs, uid) ==
    [m \in DOMAIN msgs |->
        IF msgs[m].senderid = uid THEN [msgs[m] EXCEPT !.senderid = 0] ELSE msgs[m]]

\* DELETE FROM User WHERE userid=?
DeleteUserRow(users, uid) == [id \in DOMAIN users \ {uid} |-> users[id]]

\* the statements User.delete issues in its transaction, up to the one that
\* fails: store is the record of the tables the transaction may write
DeleteStatements(store, uid, fault) ==
    LET updated == [store EXCEPT !.Message = ReassignMessages(store.Message, uid)]
        deleted == [updated EXCEPT !.User = DeleteUserRow(updated.User, uid)]
    IN  CASE fault = "update" -> store
          [] fault = "delete" -> updated
          [] OTHER -> deleted

\* (mutant) the statements issued before the failure stay
RollbackKeepsWrites(committed, working) == working

\* self.db.rollback(): the store is the committed one again
Rollback(committed, working) == committed

\* (mutant) any user object authorises
authorisedAlways(authorised_user) == TRUE

\* if authorised_user.admin
authorised(authorised_user) == authorised_user.admin

\* (mutant) no ownership check, and the memberships of the user go with the user
deleteCascadingUnchecked(store, self, authorised_user, fault) ==
    IF ~authorised(authorised_user)
    THEN [store |-> store, printed |-> "UserNotAuthorised"]
    ELSE IF fault # "none"
    THEN [store |-> store, printed |-> "OperationalError"]
    ELSE [store |-> [DeleteStatements(store, self.userid, fault) EXCEPT
                        !.ChatroomMember = {r \in store.ChatroomMember : r.userid # self.userid}],
          printed |-> "none"]

\* User.delete(self, authorised_user) on the committed store: the store it
\* leaves and the exception it catches and prints
delete(store, self, authorised_user, fault) ==
    IF ~authorised(authorised_user)
    THEN [store |-> Rollback(store, store), printed |-> "UserNotAuthorised"]
    ELSE IF SoleOwner(store.ChatroomMember, self.userid)
    THEN [store |-> Rollback(store, store), printed |-> "UserDeletionError"]
    ELSE IF fault # "none"
    THEN [store |-> Rollback(store, DeleteStatements(store, self.userid, fault)),
          printed |-> "OperationalError"]
    ELSE [store |-> DeleteStatements(store, self.userid, fault), printed |-> "none"]

\* the transaction is reached: only then can a storage fault be met
TransactionReached(cm, self, authorised_user) ==
    authorised(authorised_user) /\ ~SoleOwner(cm, self.userid)

UserDelete(self, authorised_user, fault) ==
    LET store == [User |-> User, ChatroomMember |-> ChatroomMember, Message |-> Message]
        res == delete(store, self, authorised_user, fault)
    IN  /\ fault # "none" => TransactionReached(ChatroomMember, self, authorised_user)
        /\ User' = res.store.User
        /\ ChatroomMember' = res.store.ChatroomMember
        /\ Message' = res.store.Message
        /\ handles' = handles \cup Snapshots(User')
        /\ lastOp' = [NoOp EXCEPT !.op = "delete", !.self = self.userid,
                                  !.admin = authorised_user.admin,
                                  !.acting = authorised_user.userid,
                                  !.fault = fault, !.printed = res.printed]
        /\ UNCHANGED <<UserSeq, Chatroom, Attachment, MessageSeq, AttachmentSeq, messageHandles,
                       client, created>>

(***************************************************************************)
(* User.update, User.update_login_time, User.login                         *)
(***************************************************************************)
\* User.update: UPDATE User SET username=?, last_login_ts=? WHERE userid=?
update(users, u) ==
    IF u.userid \in DOMAIN users
    THEN [users EXCEPT ![u.userid].username = u.username,
                       ![u.userid].last_login_ts = u.last_login_ts]
    ELSE users

\* the readings of time.time(), in half seconds, within the seconds 1..MaxTime
ClockReadings == {2 * sec + half : sec \in 1..MaxTime, half \in {0, 1}}

\* (mutant) the reading is rounded to the nearest second
round_time(t) == (t + 1) \div 2

\* int(time.time()): the whole seconds of the reading t
int_time(t) == t \div 2

\* User.update_login_time: the object with the whole seconds of the reading t
update_login_time(u, t) == [u EXCEPT !.last_login_ts = int_time(t)]

\* (mutant) the account's active flag is not looked at
user_data_any(users, username, password) ==
    {id \in DOMAIN users : /\ users[id].username = username
                           /\ users[id].password = password}

\* SELECT userid FROM User where username=? and password=? and active=1
user_data(users, username, password) ==
    {id \in DOMAIN users : /\ users[id].username = username
                           /\ users[id].password = password
                           /\ users[id].active = 1}

\* (mutant) the failure tells an unknown username from a wrong password
LoginFailureRevealing(users, username, password) ==
    IF \A id \in DOMAIN users : users[id].username # username
    THEN [raised |-> "UserNotFound", message |-> "Could not login user"]
    ELSE IF \A id \in DOMAIN users :
               users[id].username = username => users[id].password # password
    THEN [raised |-> "UserPasswordIncorrect", message |-> "Could not login user"]
    ELSE [raised |-> "UserNotAuthorised", message |-> "Could not login user"]

\* the exception User.login raises when user_data is empty; the username of
\* the call is the only variable part of its message
LoginFailure(users, username, password) ==
    [raised |-> "UserNotAuthorised", message |-> "Could not login user"]

UserLogin(username, password, t) ==
    \/ /\ user_data(User, username, password) = {}
       /\ lastOp' = [NoOp EXCEPT !.op = "login", !.username = username,
                                 !.password = password,
                                 !.raised = LoginFailure(User, username, password).raised,
                                 !.message = LoginFailure(User, username, password).message]
       /\ UNCHANGED <<tables, handles, messageHandles, client, created>>
    \/ \E id \in user_data(User, username, password) :
          LET u == update_login_time(UserInit(User, id), t)
          IN  /\ User' = update(User, u)
              /\ handles' = handles \cup Snapshots(User') \cup {u}
              /\ lastOp' = [NoOp EXCEPT !.op = "login", !.username = username,
                                        !.password = password, !.time = t,
                                        !.returned = u.userid]
              /\ UNCHANGED <<UserSeq, Chatroom, ChatroomMember, Message, Attachment,
                              MessageSeq, AttachmentSeq, messageHandles, client, created>>

(***************************************************************************)
(* User.create                                                             *)
(***************************************************************************)
\* (mutant) the rowid without AUTOINCREMENT: above every rowid in the table
MaxRowIdPlusOne(rows, seq) == Max(DOMAIN rows \cup {0}) + 1

\* the rowid AUTOINCREMENT gives the next row: above every rowid handed out
NextRowId(rows, seq) == Max(DOMAIN rows \cup {seq}) + 1

\* INSERT INTO User VALUES (NULL, ?, ?, 0, 0, 1)
InsertedUserRow(username, password) == UserRow(username, password, 0, 0, 1)

\* len(password) < 8
PasswordTooShort(password) == Len(password) < MinPasswordLen

\* username TEXT UNIQUE NOT NULL: the INSERT raises sqlite3.IntegrityError
UsernameTaken(users, username) == \E id \in DOMAIN users : users[id].username = username

UserCreate(username, password) ==
    \/ /\ PasswordTooShort(password)
       /\ lastOp' = [NoOp EXCEPT !.op = "create", !.username = username,
                                 !.password = password, !.raised = "UserCreationError",
                                 !.message = "Password must be at least 8 characters in length."]
       /\ UNCHANGED <<tables, handles, messageHandles, client, created>>
    \/ /\ ~PasswordTooShort(password)
       /\ UsernameTaken(User, username)
       /\ lastOp' = [NoOp EXCEPT !.op = "create", !.username = username,
                                 !.password = password, !.raised = "UserCreationError",
                                 !.message = "User with username already exists."]
       /\ UNCHANGED <<tables, handles, messageHandles, client, created>>
    \/ /\ ~PasswordTooShort(password)
       /\ ~UsernameTaken(User, username)
       /\ NextRowId(User, UserSeq) <= MaxUserId
       /\ LET userid == NextRowId(User, UserSeq)
          IN  /\ User' = (userid :> InsertedUserRow(username, password)) @@ User
              /\ UserSeq' = userid
              /\ handles' = handles \cup Snapshots(User')
              /\ lastOp' = [NoOp EXCEPT !.op = "create", !.username = username,
                                        !.password = password, !.returned = userid]
       /\ UNCHANGED <<Chatroom, ChatroomMember, Message, Attachment,
                      MessageSeq, AttachmentSeq, messageHandles, client, created>>

\* User.delete reads self.__userid and authorised_user.admin and nothing
\* else of the two objects: one object for each userid and one for each value
\* of admin stand for all the objects callers hold
HandleOf(userid) == CHOOSE h \in handles : h.userid = userid

HandleWith(admin) == CHOOSE h \in handles : h.admin = admin

Next ==
    \/ \E id \in 0..MaxUserId : UserRetrieve(id)
    \/ \E userid \in {h.userid : h \in handles}, admin \in {h.admin : h \in handles},
          fault \in Faults :
          UserDelete(HandleOf(userid), HandleWith(admin), fault)
    \/ \E username \in LoginUsernames, password \in LoginPasswords, t \in ClockReadings :
          UserLogin(username, password, t)
    \/ \E username \in CreateUsernames, password \in CreatePasswords :
          UserCreate(username, password)

Spec == Init /\ [][Next]_vars

(***************************************************************************)
(* User.update_password and User.make_admin.  They and the operations of   *)
(* Message and Attachment read no membership: their specifications start   *)
(* from the store of the fixture with the memberships of                   *)
(* init_chatroom_members scaled down.                                      *)
(***************************************************************************)
FixtureChatroomMember ==
    {MemberRow(1, 1, 1), MemberRow(1, 2, 0), MemberRow(2, 2, 1), MemberRow(2, 1, 0)}

OldPasswords == {"test1", "testadmin", "wrong"}
NewPasswords == {"password2", "short"}

\* len(new_pwd < 8): the comparison of a str with an int raises TypeError
\* before len is applied, whatever the str is
len_of_comparison(new_pwd) == [raised |-> "TypeError"]

\* SELECT userid FROM User WHERE userid=? AND password=?
password_matches(users, userid, old_pwd) ==
    userid \in DOMAIN users /\ users[userid].password = old_pwd

\* User.update_password(self, old_pwd, new_pwd): the table it leaves and the
\* exception it catches and prints
update_password(users, self, old_pwd, new_pwd) ==
    IF len_of_comparison(new_pwd).raised # "none"
    THEN [users |-> Rollback(users, users), printed |-> len_of_comparison(new_pwd).raised]
    ELSE IF password_matches(users, self.userid, old_pwd)
    THEN [users |-> [users EXCEPT ![self.userid].password = new_pwd], printed |-> "none"]
    ELSE [users |-> Rollback(users, users), printed |-> "UserPasswordIncorrect"]

UserUpdatePassword(self, old_pwd, new_pwd) ==
    LET res == update_password(User, self, old_pwd, new_pwd)
    IN  /\ User' = res.users
        /\ handles' = handles \cup Snapshots(User')
        /\ lastOp' = [NoOp EXCEPT !.op = "update_password", !.self = self.userid,
                                  !.password = old_pwd, !.new_password = new_pwd,
                                  !.admin_before = self.admin, !.admin_after = self.admin,
                                  !.printed = res.printed]
        /\ UNCHANGED <<UserSeq, Chatroom, ChatroomMember, Message, Attachment,
                        MessageSeq, AttachmentSeq, messageHandles, client, created>>

\* int(self.__admin)
int_bool(b) == IF b THEN 1 ELSE 0

\* UPDATE User SET admin=? WHERE userid=?
SetAdmin(users, userid, admin) ==
    IF userid \in DOMAIN users THEN [users EXCEPT ![userid].admin = admin] ELSE users

\* User.make_admin(self, authorised_user, revoke): the table it leaves, the
\* object self after the call and the exception it catches and prints
make_admin(users, self, authorised_user, revoke) ==
    IF authorised(authorised_user)
    THEN LET granted == [self EXCEPT !.admin = ~revoke]
         IN  [users |-> SetAdmin(users, self.userid, int_bool(granted.admin)),
              self |-> granted, printed |-> "none"]
    ELSE [users |-> Rollback(users, users), self |-> self, printed |-> "UserNotAuthorised"]

UserMakeAdmin(self, authorised_user, revoke) ==
    LET res == make_admin(User, self, authorised_user, revoke)
    IN  /\ User' = res.users
        /\ handles' = handles \cup Snapshots(User') \cup {res.self}
        /\ lastOp' = [NoOp EXCEPT !.op = "make_admin", !.self = self.userid,
                                  !.admin = authorised_user.admin,
                                  !.acting = authorised_user.userid, !.revoke = revoke,
                                  !.admin_before = self.admin,
                                  !.admin_after = res.self.admin,
                                  !.printed = res.printed]
        /\ UNCHANGED <<UserSeq, Chatroom, ChatroomMember, Message, Attachment,
                        MessageSeq, AttachmentSeq, messageHandles, client, created>>

InitFixture == Init /\ ChatroomMember = FixtureChatroomMember

NextCredentials ==
    \/ \E id \in 0..MaxUserId : UserRetrieve(id)
    \/ \E self \in handles, old_pwd \in OldPasswords, new_pwd \in NewPasswords :
          UserUpdatePassword(self, old_pwd, new_pwd)
    \/ \E self \in handles, authorised_user \in handles, revoke \in BOOLEAN :
          UserMakeAdmin(self, authorised_user, revoke)

SpecCredentials == InitFixture /\ [][NextCredentials]_vars

\* the admin right over objects loaded before it was revoked: User.make_admin,
\* User.delete and User.create with every object callers hold as
\* authorised_user and one object of each user as self
NextAdmin ==
    \/ \E id \in 0..MaxUserId : UserRetrieve(id)
    \/ \E userid \in {h.userid : h \in handles}, authorised_user \in handles,
          revoke \in BOOLEAN :
          UserMakeAdmin(HandleOf(userid), authorised_user, revoke)
    \/ \E userid \in {h.userid : h \in handles}, authorised_user \in handles :
          UserDelete(HandleOf(userid), authorised_user, "none")
    \/ \E username \in CreateUsernames, password \in CreatePasswords :
          UserCreate(username, password)

SpecAdmin == InitFixture /\ [][NextAdmin]_vars

(***************************************************************************)
(* Message and Attachment.  A Message object keeps the attachment list it  *)
(* loaded; messageHandles holds every object a caller has been able to     *)
(* load or to get back from a call.  An Attachment object is used by its   *)
(* attachmentid only, and every id AUTOINCREMENT has handed out has been   *)
(* loadable.                                                               *)
(***************************************************************************)
Contents == {"", "new"}
SenderIds == {1}
Filepaths == {"gary.png"}

\* storage failures injected into Message.delete: in the delete of one of
\* the attachments, in the DELETE of the Message row, in the commit
MessageFaults == {"none", "attachment", "message", "commit"}

\* (mutant) messageid >= ?
get_messages_from(msgs, chatroomid, since_message_id) ==
    Ascending({id \in DOMAIN msgs :
                  msgs[id].chatroomid = chatroomid /\ id >= since_message_id})

\* Message.get_messages_for_chatroom:
\* SELECT messageid FROM Message WHERE chatroomid=? AND messageid > ?
\* the messageids of the objects of the list it returns
get_messages_for_chatroom(msgs, chatroomid, since_message_id) ==
    Ascending({id \in DOMAIN msgs :
                  msgs[id].chatroomid = chatroomid /\ id > since_message_id})

\* Chatroom.messages: the default since_message_id=0
ChatroomMessages(chatroomid) ==
    /\ lastOp' = [NoOp EXCEPT !.op = "messages", !.chatroomid = chatroomid,
                              !.result = get_messages_for_chatroom(Message, chatroomid, 0)]
    /\ UNCHANGED <<tables, handles, messageHandles, client, created>>

\* Chatroom.get_messages_since(messageid)
ChatroomGetMessagesSince(chatroomid, messageid) ==
    /\ lastOp' = [NoOp EXCEPT !.op = "get_messages_since", !.chatroomid = chatroomid,
                              !.since = messageid,
                              !.result = get_messages_for_chatroom(Message, chatroomid, messageid)]
    /\ UNCHANGED <<tables, handles, messageHandles, client, created>>

\* Message.retrieve / Message.__init__
MessageRetrieve(id) ==
    /\ lastOp' = IF id \in DOMAIN Message
                 THEN [NoOp EXCEPT !.op = "message_retrieve", !.returned = id]
                 ELSE [NoOp EXCEPT !.op = "message_retrieve", !.raised = "MessageNotFound"]
    /\ UNCHANGED <<tables, handles, messageHandles, client, created>>

\* Attachment.retrieve / Attachment.__init__
AttachmentRetrieve(id) ==
    /\ lastOp' = IF id \in DOMAIN Attachment
                 THEN [NoOp EXCEPT !.op = "attachment_retrieve", !.returned = id]
                 ELSE [NoOp EXCEPT !.op = "attachment_retrieve",
                                   !.raised = "AttachmentNotFound"]
    /\ UNCHANGED <<tables, handles, messageHandles, client, created>>

\* (mutant) no content is refused
InvalidContentNever(content) == FALSE

\* len(content) == 0
InvalidContent(content) == Len(content) = 0

\* INSERT INTO Message VALUES (NULL,?,?,?,?) with int(time.time())
InsertedMessageRow(content, chatroomid, senderid, t) ==
    [content |-> content, chatroomid |-> chatroomid, senderid |-> senderid,
     timestamp |-> int_time(t)]

\* Message.create(content, chatroomid, senderid) at the clock reading t
MessageCreate(content, chatroomid, senderid, t) ==
    \/ /\ InvalidContent(content)
       /\ lastOp' = [NoOp EXCEPT !.op = "message_create", !.content = content,
                                 !.chatroomid = chatroomid, !.senderid = senderid,
                                 !.raised = "InvalidMessageData"]
       /\ UNCHANGED <<tables, handles, messageHandles, client, created>>
    \/ /\ ~InvalidContent(content)
       /\ NextRowId(Message, MessageSeq) <= MaxMessageId
       /\ LET messageid == NextRowId(Message, MessageSeq)
          IN  /\ Message' = (messageid :> InsertedMessageRow(content, chatroomid, senderid, t))
                               @@ Message
              /\ MessageSeq' = messageid
              /\ messageHandles' = messageHandles \cup MessageSnapshots(Message', Attachment)
              /\ created' = created \cup {[messageid |-> messageid, chatroomid |-> chatroomid]}
              /\ lastOp' = [NoOp EXCEPT !.op = "message_create", !.content = content,
                                        !.chatroomid = chatroomid, !.senderid = senderid,
                                        !.returned = messageid]
       /\ UNCHANGED <<User, UserSeq, Chatroom, ChatroomMember, Attachment, AttachmentSeq,
                      handles, client>>

\* DELETE FROM Attachment WHERE attachmentid=?
DeleteAttachmentRow(atts, attachmentid) ==
    [id \in DOMAIN atts \ {attachmentid} |-> atts[id]]

\* Attachment.delete: the DELETE and its own commit
AttachmentDelete(attachmentid) ==
    /\ Attachment' = DeleteAttachmentRow(Attachment, attachmentid)
    /\ messageHandles' = messageHandles \cup MessageSnapshots(Message, Attachment')
    /\ lastOp' = [NoOp EXCEPT !.op = "attachment_delete", !.self = attachmentid]
    /\ UNCHANGED <<User, UserSeq, Chatroom, ChatroomMember, Message, MessageSeq,
                   AttachmentSeq, handles, client, created>>

\* INSERT INTO Attachment VALUES (NULL, ?, ?)
InsertedAttachmentRow(messageid, filepath) == [messageid |-> messageid, filepath |-> filepath]

\* Attachment.create(messageid, filepath): the Attachment table it commits
create_attachment(atts, seq, messageid, filepath) ==
    (NextRowId(atts, seq) :> InsertedAttachmentRow(messageid, filepath)) @@ atts

\* Attachment.create, called with the messageid of a Message object
AttachmentCreate(messageid, filepath) ==
    /\ NextRowId(Attachment, AttachmentSeq) <= MaxAttachmentId
    /\ Attachment' = create_attachment(Attachment, AttachmentSeq, messageid, filepath)
    /\ AttachmentSeq' = NextRowId(Attachment, AttachmentSeq)
    /\ messageHandles' = messageHandles \cup MessageSnapshots(Message, Attachment')
    /\ lastOp' = [NoOp EXCEPT !.op = "attachment_create", !.self = messageid,
                              !.filepath = filepath, !.returned = AttachmentSeq']
    /\ UNCHANGED <<User, UserSeq, Chatroom, ChatroomMember, Message, MessageSeq, handles,
                   client, created>>

\* Message.add_attachment(self, filepath): Attachment.create with
\* self.messageid, then __update_attachments reloads the list of self
MessageAddAttachment(self, filepath) ==
    /\ NextRowId(Attachment, AttachmentSeq) <= MaxAttachmentId
    /\ Attachment' = create_attachment(Attachment, AttachmentSeq, self.messageid, filepath)
    /\ AttachmentSeq' = NextRowId(Attachment, AttachmentSeq)
    /\ messageHandles' =
          messageHandles \cup MessageSnapshots(Message, Attachment')
             \cup {[self EXCEPT !.attachments =
                       get_attachments_for_message(Attachment', self.messageid)]}
    /\ lastOp' = [NoOp EXCEPT !.op = "add_attachment", !.self = self.messageid,
                              !.filepath = filepath]
    /\ UNCHANGED <<User, UserSeq, Chatroom, ChatroomMember, Message, MessageSeq, handles,
                   client, created>>

\* the first n turns of the loop of Message.delete over self.attachments:
\* each attachment.delete() deletes its row and commits
RECURSIVE DeleteAttachments(_, _, _)
DeleteAttachments(atts, attachments, n) ==
    IF n = 0 THEN atts
    ELSE DeleteAttachmentRow(DeleteAttachments(atts, attachments, n - 1),
                             attachments[n].attachmentid)

\* DELETE FROM Message WHERE messageid=?
DeleteMessageRow(msgs, messageid) == [id \in DOMAIN msgs \ {messageid} |-> msgs[id]]

\* Message.delete(self) on the committed store: the store it leaves and the
\* exception it raises.  A fault in the delete of attachment k is met after
\* the commits of the attachments before it; a fault in the DELETE of the
\* Message row or in its commit is met after the commits of all of them.
message_delete(store, self, fault, k) ==
    LET n == Len(self.attachments)
        looped(i) == [store EXCEPT !.Attachment =
                         DeleteAttachments(store.Attachment, self.attachments, i)]
        deleted == [looped(n) EXCEPT !.Message =
                       DeleteMessageRow(store.Message, self.messageid)]
    IN  CASE fault = "attachment" ->
                [store |-> Rollback(looped(k - 1), looped(k - 1)),
                 raised |-> "OperationalError"]
          [] fault = "message" ->
                [store |-> Rollback(looped(n), looped(n)), raised |-> "OperationalError"]
          [] fault = "commit" ->
                [store |-> Rollback(looped(n), deleted), raised |-> "OperationalError"]
          [] OTHER -> [store |-> deleted, raised |-> "none"]

MessageDelete(self, fault, k) ==
    LET store == [Message |-> Message, Attachment |-> Attachment]
        res == message_delete(store, self, fault, k)
    IN  /\ IF fault = "attachment" THEN k \in 1..Len(self.attachments) ELSE k = 0
        /\ Message' = res.store.Message
        /\ Attachment' = res.store.Attachment
        /\ messageHandles' = messageHandles \cup MessageSnapshots(Message', Attachment')
        /\ lastOp' = [NoOp EXCEPT !.op = "message_delete", !.self = self.messageid,
                                  !.fault = fault, !.raised = res.raised]
        /\ UNCHANGED <<User, UserSeq, Chatroom, ChatroomMember, MessageSeq, AttachmentSeq,
                       handles, client, created>>

\* the attachments of the messages of the fixture, through the objects callers
\* hold, with the storage faults of Message.delete
NextMessage ==
    \/ \E self \in messageHandles, fault \in MessageFaults, k \in 0..MaxAttachmentId :
          MessageDelete(self, fault, k)
    \/ \E self \in messageHandles, filepath \in Filepaths :
          MessageAddAttachment(self, filepath)
    \/ \E messageid \in {h.messageid : h \in messageHandles}, filepath \in Filepaths :
          AttachmentCreate(messageid, filepath)
    \/ \E attachmentid \in 1..AttachmentSeq : AttachmentDelete(attachmentid)

SpecMessage == InitFixture /\ [][NextMessage]_vars

\* the message lists of Chatroom over the creation and deletion of messages
NextChatroom ==
    \/ \E id \in 1..MaxMessageId : MessageRetrieve(id)
    \/ \E id \in 1..MaxAttachmentId : AttachmentRetrieve(id)
    \/ \E chatroomid \in RoomIds : ChatroomMessages(chatroomid)
    \/ \E chatroomid \in RoomIds, messageid \in 0..MaxMessageId :
          ChatroomGetMessagesSince(chatroomid, messageid)
    \/ \E content \in Contents, chatroomid \in RoomIds, senderid \in SenderIds,
          t \in ClockReadings :
          MessageCreate(content, chatroomid, senderid, t)
    \/ \E self \in messageHandles : MessageDelete(self, "none", 0)

SpecChatroom == InitFixture /\ [][NextChatroom]_vars

(***************************************************************************)
(* A client of a chatroom.  It remembers the highest messageid it has seen *)
(* and passes it to get_messages_since as the cursor to fetch the new      *)
(* messages.                                                               *)
(***************************************************************************)
\* the chatroom the client follows: Chatroom(1) of test_chatrooms
ClientChatroom == 1

\* the elements of the list
Range(list) == {list[i] : i \in 1..Len(list)}

\* one poll: get_messages_since(cursor) on the chatroom, then the cursor is
\* the highest messageid seen
ClientPoll ==
    LET messages == get_messages_for_chatroom(Message, ClientChatroom, client.cursor)
    IN  /\ client' = [cursor |-> Max(Range(messages) \cup {client.cursor}),
                      received |-> client.received \cup Range(messages)]
        /\ lastOp' = [NoOp EXCEPT !.op = "poll", !.chatroomid = ClientChatroom,
                                  !.since = client.cursor, !.result = messages]
        /\ UNCHANGED <<tables, handles, messageHandles, created>>

NextClient ==
    \/ \E content \in Contents, chatroomid \in RoomIds, senderid \in SenderIds,
          t \in ClockReadings :
          MessageCreate(content, chatroomid, senderid, t)
    \/ \E self \in messageHandles : MessageDelete(self, "none", 0)
    \/ ClientPoll

SpecClient == InitFixture /\ [][NextClient]_vars

(***************************************************************************)
(* Chatroom.__init__ and Chatroom.is_owner, over the deletion of users.    *)
(***************************************************************************)
\* the chatroomids callers load: those of the fixture and one that no row has
LoadRoomIds == RoomIds \cup {Max(RoomIds) + 1}

\* SELECT userid FROM ChatroomMember WHERE chatroomid=? AND owner=?, in the
\* order of the primary key (chatroomid, userid)
members_data(cm, chatroomid, owner) ==
    Ascending({r.userid : r \in {x \in cm : x.chatroomid = chatroomid /\ x.owner = owner}})

\* the loop of __update_owners and of __update_members: User(row['userid'])
\* for each row, which raises UserNotFound for a userid that has no row
UsersOf(users, ids) ==
    IF \E i \in 1..Len(ids) : ids[i] \notin DOMAIN users
    THEN [raised |-> "UserNotFound", list |-> <<>>]
    ELSE [raised |-> "none", list |-> [i \in 1..Len(ids) |-> UserInit(users, ids[i])]]

\* Chatroom.__init__(chatroomid): the exception it raises and the lists of
\* the object it builds, owners first
ChatroomInit(rooms, cm, users, chatroomid) ==
    LET owners == UsersOf(users, members_data(cm, chatroomid, 1))
        members == UsersOf(users, members_data(cm, chatroomid, 0))
    IN  IF chatroomid \notin DOMAIN rooms
        THEN [raised |-> "ChatroomNotFound", owners |-> <<>>, members |-> <<>>]
        ELSE IF owners.raised # "none"
        THEN [raised |-> owners.raised, owners |-> <<>>, members |-> <<>>]
        ELSE IF members.raised # "none"
        THEN [raised |-> members.raised, owners |-> <<>>, members |-> <<>>]
        ELSE [raised |-> "none", owners |-> owners.list, members |-> members.list]

\* Chatroom.is_owner(user) on the owners list of a Chatroom object
is_owner(owners, user) == \E i \in 1..Len(owners) : owners[i].username = user.username

ChatroomLoad(chatroomid) ==
    LET res == ChatroomInit(Chatroom, ChatroomMember, User, chatroomid)
    IN  /\ lastOp' = [NoOp EXCEPT !.op = "chatroom", !.chatroomid = chatroomid,
                                  !.raised = res.raised,
                                  !.returned = IF res.raised = "none" THEN chatroomid ELSE -1,
                                  !.owners = res.owners, !.members = res.members]
        /\ UNCHANGED <<tables, handles, messageHandles, client, created>>

NextMembers ==
    \/ \E chatroomid \in LoadRoomIds : ChatroomLoad(chatroomid)
    \/ \E userid \in {h.userid : h \in handles}, admin \in {h.admin : h \in handles} :
          UserDelete(HandleOf(userid), HandleWith(admin), "none")

SpecMembers == Init /\ [][NextMembers]_vars

(***************************************************************************)
(* Properties.                                                             *)
(***************************************************************************)
\* the call just made is a User.delete that caught no exception
DeleteSucceeded == lastOp.op = "delete" /\ lastOp.printed = "none"

\* uid holds an owner row of a chatroom in which no other user holds one
OnlyOwnerOfSomeChatroom(cm, uid) ==
    \E r \in cm :
        /\ r.userid = uid
        /\ r.owner = 1
        /\ \A o \in cm : (o.chatroomid = r.chatroomid /\ o.owner = 1) => o.userid = uid

\* uid holds an owner row of a chatroom in which another user holds one too
CoOwnerOfSomeChatroom(cm, uid) ==
    \E r, o \in cm :
        /\ r.userid = uid /\ r.owner = 1
        /\ o.chatroomid = r.chatroomid /\ o.owner = 1 /\ o.userid # uid

\* C1: in every reachable state, every chatroom that has a ChatroomMember row
\* has a ChatroomMember row with owner = 1.
C1_ChatroomsKeepAnOwnerRow ==
    \A r \in ChatroomMember :
        \E o \in ChatroomMember : o.chatroomid = r.chatroomid /\ o.owner = 1

\* a co-owner has been deleted and its owner row is still in the table
C1_Witness ==
    /\ DeleteSucceeded
    /\ lastOp.self \notin DOMAIN User
    /\ CoOwnerOfSomeChatroom(ChatroomMember, lastOp.self)

\* C2: a User.delete whose target is the only owner of at least one chatroom
\* leaves the User, ChatroomMember, Message, Chatroom and Attachment tables as
\* they were before the call.
C2_SoleOwnerDeleteChangesNoRow ==
    [][(lastOp'.op = "delete" /\ OnlyOwnerOfSomeChatroom(ChatroomMember, lastOp'.self))
          => /\ User' = User
             /\ ChatroomMember' = ChatroomMember
             /\ Message' = Message
             /\ Chatroom' = Chatroom
             /\ Attachment' = Attachment]_vars

\* an admin has tried to delete a user that is the only owner of chatroom 2
\* and a co-owner of chatroom 1
C2_Witness ==
    /\ lastOp.op = "delete"
    /\ lastOp.admin
    /\ lastOp.printed = "UserDeletionError"
    /\ lastOp.self \in DOMAIN User
    /\ MemberRow(2, lastOp.self, 1) \in ChatroomMember
    /\ \A o \in RowsOf(ChatroomMember, 2) : o.owner = 1 => o.userid = lastOp.self
    /\ MemberRow(1, lastOp.self, 1) \in ChatroomMember
    /\ \E o \in RowsOf(ChatroomMember, 1) : o.owner = 1 /\ o.userid # lastOp.self

\* C3: in every reachable state, every chatroom that has membership rows has
\* an owner row of a user that still exists, so the only two co-owners of a
\* chatroom are never both deleted.
C3_ChatroomsKeepAnExistingOwner ==
    \A r \in ChatroomMember :
        \E o \in ChatroomMember :
            o.chatroomid = r.chatroomid /\ o.owner = 1 /\ o.userid \in DOMAIN User

\* C4: a User.delete that succeeds sets senderid to 0 in every Message of the
\* target, deletes no Message and changes no other field and no other Message.
C4_DeleteReassignsMessages ==
    [][(lastOp'.op = "delete" /\ lastOp'.printed = "none")
          => /\ DOMAIN Message' = DOMAIN Message
             /\ \A m \in DOMAIN Message :
                   /\ Message'[m].content = Message[m].content
                   /\ Message'[m].chatroomid = Message[m].chatroomid
                   /\ Message'[m].timestamp = Message[m].timestamp
                   /\ Message'[m].senderid =
                         IF Message[m].senderid = lastOp'.self THEN 0 ELSE Message[m].senderid]_vars

\* the sender of a message has been deleted and the message is the sentinel's
C4_Witness ==
    /\ DeleteSucceeded
    /\ lastOp.self # 0
    /\ \E m \in DOMAIN Message \cap DOMAIN InitMessage :
          InitMessage[m].senderid = lastOp.self /\ Message[m].senderid = 0

\* C5: after a User.delete that succeeds the target has no User row and no
\* ChatroomMember row, and in every reachable state every ChatroomMember row
\* is of an existing user.
C5_MembershipsReferenceUsers ==
    /\ DeleteSucceeded =>
          /\ lastOp.self \notin DOMAIN User
          /\ \A r \in ChatroomMember : r.userid # lastOp.self
    /\ \A r \in ChatroomMember : r.userid \in DOMAIN User

\* C6: a User.delete whose authorised_user is not an admin leaves the User,
\* ChatroomMember and Message tables as they were before the call.
C6_UnauthorisedDeleteChangesNoRow ==
    [][(lastOp'.op = "delete" /\ ~lastOp'.admin)
          => /\ User' = User
             /\ ChatroomMember' = ChatroomMember
             /\ Message' = Message]_vars

\* a user that is not an admin has tried to delete an existing user that
\* nothing else protects from deletion
C6_Witness ==
    /\ lastOp.op = "delete"
    /\ ~lastOp.admin
    /\ lastOp.printed = "UserNotAuthorised"
    /\ lastOp.self \in DOMAIN User
    /\ ~OnlyOwnerOfSomeChatroom(ChatroomMember, lastOp.self)

\* C7: a User.delete that leaves the target's row in place raises to its
\* caller: UserNotAuthorised when authorised_user is not an admin,
\* UserDeletionError when the target is the only owner of a chatroom.
C7_FailedDeleteRaises ==
    (lastOp.op = "delete" /\ lastOp.self \in DOMAIN User)
        => /\ lastOp.raised # "none"
           /\ ~lastOp.admin => lastOp.raised = "UserNotAuthorised"
           /\ (lastOp.admin /\ OnlyOwnerOfSomeChatroom(ChatroomMember, lastOp.self))
                 => lastOp.raised = "UserDeletionError"

\* C8: a User.delete that meets a storage failure after its UPDATE of Message
\* (in the DELETE of the User row or in the commit) leaves the User,
\* ChatroomMember and Message tables as they were before the call; no message
\* of the fixture is the sentinel's while its sender exists.
C8_FailedTransactionRollsBack ==
    /\ [][(lastOp'.op = "delete" /\ lastOp'.fault \in {"delete", "commit"})
             => /\ User' = User
                /\ ChatroomMember' = ChatroomMember
                /\ Message' = Message]_vars
    /\ [](\A m \in DOMAIN Message \cap DOMAIN InitMessage :
             InitMessage[m].senderid \in DOMAIN User
                => Message[m].senderid = InitMessage[m].senderid)

\* the DELETE of the row of a user that has sent a message has failed
C8_Witness ==
    /\ lastOp.op = "delete"
    /\ lastOp.fault = "delete"
    /\ lastOp.printed = "OperationalError"
    /\ lastOp.self \in DOMAIN User
    /\ lastOp.self # 0
    /\ \E m \in DOMAIN Message : Message[m].senderid = lastOp.self

\* the three ways a login is refused, on the table users
WrongPassword(users, username, password) ==
    \E id \in DOMAIN users : users[id].username = username /\ users[id].password # password

UnknownUsername(users, username) ==
    \A id \in DOMAIN users : users[id].username # username

InactiveAccount(users, username, password) ==
    \E id \in DOMAIN users :
        /\ users[id].username = username
        /\ users[id].password = password
        /\ users[id].active # 1

\* C9: a User.login with a wrong password, with an unknown username or with
\* the right username and password of an inactive account raises
\* UserNotAuthorised with the same message, returns nothing and changes no
\* table.
C9_LoginFailuresAreUniform ==
    [][(/\ lastOp'.op = "login"
        /\ \/ WrongPassword(User, lastOp'.username, lastOp'.password)
           \/ UnknownUsername(User, lastOp'.username)
           \/ InactiveAccount(User, lastOp'.username, lastOp'.password))
          => /\ lastOp'.returned = -1
             /\ lastOp'.raised = "UserNotAuthorised"
             /\ lastOp'.message = "Could not login user"
             /\ tables' = tables]_vars

\* a login with the right username and password of an inactive account has
\* been refused
C9_Witness ==
    /\ lastOp.op = "login"
    /\ lastOp.raised = "UserNotAuthorised"
    /\ InactiveAccount(User, lastOp.username, lastOp.password)

\* the active rows of User with this username and this password
ActiveRows(username, password) ==
    {id \in DOMAIN User : /\ User[id].username = username
                          /\ User[id].password = password
                          /\ User[id].active = 1}

\* C10: User.login returns a user exactly when User holds an active row with
\* the username and the password, and returns that row; User.create stores an
\* active row with its username and password, and a row keeps its username,
\* password and active flag until it is deleted.
C10_LoginMatchesActiveRow ==
    /\ [](lastOp.op = "login" =>
             /\ lastOp.returned # -1 <=> ActiveRows(lastOp.username, lastOp.password) # {}
             /\ lastOp.returned # -1 =>
                   lastOp.returned \in ActiveRows(lastOp.username, lastOp.password))
    /\ []((lastOp.op = "create" /\ lastOp.returned # -1) =>
             ActiveRows(lastOp.username, lastOp.password) = {lastOp.returned})
    /\ [][\A id \in DOMAIN User \cap DOMAIN User' :
             /\ User'[id].username = User[id].username
             /\ User'[id].password = User[id].password
             /\ User'[id].active = User[id].active]_vars

\* a user that User.create has stored has logged in
C10_Witness ==
    /\ lastOp.op = "login"
    /\ lastOp.returned > InitUserSeq
    /\ lastOp.returned \in DOMAIN User

\* the messages of a chatroom above a cursor, in the table Message
MessagesAfter(chatroomid, cursor) ==
    {m \in DOMAIN Message : Message[m].chatroomid = chatroomid /\ m > cursor}

\* list holds each element of S once, in ascending order
IsAscendingListOf(list, S) ==
    /\ {list[i] : i \in 1..Len(list)} = S
    /\ \A i, j \in 1..Len(list) : i < j => list[i] < list[j]

C12_DeleteRemovesAttachments ==
    (lastOp.op = "message_delete" /\ lastOp.raised = "none")
        => /\ lastOp.self \notin DOMAIN Message
           /\ \A a \in DOMAIN Attachment : Attachment[a].messageid # lastOp.self

\* C13: a Message.delete that meets a failure, in the delete of one of its
\* attachments, in the DELETE of the Message row or in the commit, leaves the
\* Message and Attachment tables as they were before the call.
C13_MessageDeleteIsAtomic ==
    [][(lastOp'.op = "message_delete" /\ lastOp'.fault # "none")
          => /\ Message' = Message
             /\ Attachment' = Attachment]_vars

\* C14: a User.create with a password shorter than 8 characters fails and
\* inserts no row, a User.create with the username of an existing user fails
\* and inserts no row, the two failures are exceptions of different kinds, and
\* in every reachable state usernames are unique.
C14_CreateFailuresAreDistinctKinds ==
    /\ [](\A id1, id2 \in DOMAIN User :
             User[id1].username = User[id2].username => id1 = id2)
    /\ [][(lastOp'.op = "create" /\ Len(lastOp'.password) < 8)
             => /\ lastOp'.raised # "none"
                /\ User' = User]_vars
    /\ [][(/\ lastOp'.op = "create"
           /\ Len(lastOp'.password) >= 8
           /\ \E id \in DOMAIN User : User[id].username = lastOp'.username)
             => /\ lastOp'.raised # "none"
                /\ User' = User]_vars
    /\ [][(/\ lastOp.op = "create"
           /\ Len(lastOp.password) < 8
           /\ lastOp'.op = "create"
           /\ Len(lastOp'.password) >= 8
           /\ \E id \in DOMAIN User : User[id].username = lastOp'.username)
             => lastOp'.raised # lastOp.raised]_vars

\* C15: a User.update_password whose old password is the stored one and
\* whose new password has at least 8 characters stores the new password; any
\* other User.update_password fails and leaves the table User as it was.
C15_UpdatePasswordReplaces ==
    [][lastOp'.op = "update_password" =>
          IF /\ lastOp'.self \in DOMAIN User
             /\ User[lastOp'.self].password = lastOp'.password
             /\ Len(lastOp'.new_password) >= 8
          THEN User' = [User EXCEPT ![lastOp'.self].password = lastOp'.new_password]
          ELSE /\ lastOp'.raised # "none" \/ lastOp'.printed # "none"
               /\ User' = User]_vars

\* C16: a User.make_admin whose authorised_user is an admin stores
\* (not revoke) as the admin flag of the target; one whose authorised_user is
\* not an admin raises UserNotAuthorised to its caller and changes neither the
\* table User nor the admin property of the target object.
C16_MakeAdminRequiresAdmin ==
    [][lastOp'.op = "make_admin" =>
          IF lastOp'.admin
          THEN lastOp'.self \in DOMAIN User =>
                  /\ lastOp'.self \in DOMAIN User'
                  /\ User'[lastOp'.self].admin = (IF lastOp'.revoke THEN 0 ELSE 1)
          ELSE /\ lastOp'.raised = "UserNotAuthorised"
               /\ User' = User
               /\ lastOp'.admin_after = lastOp'.admin_before]_vars

\* C17: in every reachable state the sentinel row of User, with userid 0,
\* exists, is inactive and is not an admin, and no User.login returns it.
C17_SentinelStays ==
    /\ 0 \in DOMAIN User
    /\ User[0].active = 0
    /\ User[0].admin = 0
    /\ lastOp.op = "login" => lastOp.returned # 0

\* C18: a Message.create with empty content raises InvalidMessageData and
\* leaves the table Message as it was; one with content inserts one row with
\* the content, chatroomid and senderid given, returns its object and changes
\* no other row.
C18_MessageCreateValidates ==
    [][lastOp'.op = "message_create" =>
          IF lastOp'.content = ""
          THEN /\ lastOp'.raised = "InvalidMessageData"
               /\ lastOp'.returned = -1
               /\ Message' = Message
          ELSE /\ lastOp'.raised = "none"
               /\ lastOp'.returned \notin DOMAIN Message
               /\ DOMAIN Message' = DOMAIN Message \cup {lastOp'.returned}
               /\ Message'[lastOp'.returned].content = lastOp'.content
               /\ Message'[lastOp'.returned].chatroomid = lastOp'.chatroomid
               /\ Message'[lastOp'.returned].senderid = lastOp'.senderid
               /\ \A m \in DOMAIN Message : Message'[m] = Message[m]
               /\ User' = User
               /\ Chatroom' = Chatroom
               /\ ChatroomMember' = ChatroomMember
               /\ Attachment' = Attachment]_vars

\* a message has been created in chatroom 2 after a message was deleted
C18_Witness ==
    /\ lastOp.op = "message_create"
    /\ lastOp.returned \in DOMAIN Message
    /\ Message[lastOp.returned].content = "new"
    /\ Message[lastOp.returned].chatroomid = 2
    /\ DOMAIN InitMessage \ DOMAIN Message # {}

\* C19 as claimed: a User.login that succeeds stores a last-login timestamp
\* between the instant of the call and the instant of the return, whatever
\* these instants around the reading of the clock are, and changes no other
\* field of the user and no other row of User; a login that fails changes no
\* timestamp.
C19_LoginTimestampWithinCall ==
    [][lastOp'.op = "login" =>
          IF lastOp'.returned # -1
          THEN /\ \A called, returned \in ClockReadings :
                     (called <= lastOp'.time /\ lastOp'.time <= returned)
                        => /\ called <= 2 * User'[lastOp'.returned].last_login_ts
                           /\ 2 * User'[lastOp'.returned].last_login_ts <= returned
               /\ DOMAIN User' = DOMAIN User
               /\ \A id \in DOMAIN User :
                     User'[id] = IF id = lastOp'.returned
                                 THEN [User[id] EXCEPT !.last_login_ts =
                                          User'[id].last_login_ts]
                                 ELSE User[id]
          ELSE User' = User]_vars

\* C19 as amended: the timestamp stored is in whole seconds, at least the
\* whole seconds of the instant of the call and at most the instant of the
\* return; the rest as claimed.
C19_LoginTimestampWholeSeconds ==
    [][lastOp'.op = "login" =>
          IF lastOp'.returned # -1
          THEN /\ \A called, returned \in ClockReadings :
                     (called <= lastOp'.time /\ lastOp'.time <= returned)
                        => /\ called \div 2 <= User'[lastOp'.returned].last_login_ts
                           /\ 2 * User'[lastOp'.returned].last_login_ts <= returned
               /\ DOMAIN User' = DOMAIN User
               /\ \A id \in DOMAIN User :
                     User'[id] = IF id = lastOp'.returned
                                 THEN [User[id] EXCEPT !.last_login_ts =
                                          User'[id].last_login_ts]
                                 ELSE User[id]
          ELSE User' = User]_vars

\* a login has succeeded at a reading of the clock that is not a whole second
C19_Witness ==
    /\ lastOp.op = "login"
    /\ lastOp.returned \in DOMAIN User
    /\ lastOp.time % 2 = 1
    /\ User[lastOp.returned].last_login_ts = lastOp.time \div 2

\* C20: in every reachable state every Attachment row has the messageid of a
\* Message row that exists.
C20_AttachmentsReferenceMessages ==
    \A a \in DOMAIN Attachment : Attachment[a].messageid \in DOMAIN Message

\* C21: the admin flag of a row of User changes, and a row of User is deleted,
\* only in a call whose authorised_user has a row of User with admin = 1 at
\* the moment of the call; and the row User.create stores is not an admin's.
C21_AdminRightIsCurrent ==
    /\ [][(\/ \E id \in DOMAIN User \cap DOMAIN User' : User'[id].admin # User[id].admin
           \/ DOMAIN User \ DOMAIN User' # {})
             => /\ lastOp'.acting \in DOMAIN User
                /\ User[lastOp'.acting].admin = 1]_vars
    /\ [][(lastOp'.op = "create" /\ lastOp'.returned # -1)
             => User'[lastOp'.returned].admin = 0]_vars

\* the messages created in the client's chatroom since the client started
CreatedInClientChatroom == {c.messageid : c \in {x \in created : x.chatroomid = ClientChatroom}}

\* C22 as claimed: a message Message.create stores has a messageid greater
\* than that of every message created before it and of every message stored;
\* a poll of the client returns no message the client has received before;
\* and after a poll the client has received every message created in its
\* chatroom since it started.
C22_ClientReceivesEveryCreatedMessage ==
    /\ [][(lastOp'.op = "message_create" /\ lastOp'.returned # -1)
             => /\ \A c \in created : lastOp'.returned > c.messageid
                /\ \A m \in DOMAIN Message : lastOp'.returned > m]_vars
    /\ [][lastOp'.op = "poll" =>
             /\ Range(lastOp'.result) \cap client.received = {}
             /\ CreatedInClientChatroom \subseteq client'.received]_vars

\* C22 as amended: the messageids as claimed; a poll returns no message the
\* client has received before; and after a poll the client has received every
\* message of its chatroom that is stored.
C22_ClientReceivesEveryStoredMessage ==
    /\ [][(lastOp'.op = "message_create" /\ lastOp'.returned # -1)
             => /\ \A c \in created : lastOp'.returned > c.messageid
                /\ \A m \in DOMAIN Message : lastOp'.returned > m]_vars
    /\ [][lastOp'.op = "poll" =>
             /\ Range(lastOp'.result) \cap client.received = {}
             /\ \A m \in DOMAIN Message :
                   Message[m].chatroomid = ClientChatroom => m \in client'.received]_vars

\* the client has polled twice: the second poll has returned nothing but a
\* message created since the first, after the message with the highest id
\* had been deleted
C22_Witness ==
    /\ lastOp.op = "poll"
    /\ lastOp.since > 0
    /\ Len(lastOp.result) = 1
    /\ lastOp.result[1] \in CreatedInClientChatroom
    /\ lastOp.result[1] = Max(DOMAIN InitMessage) + 1
    /\ Max(DOMAIN InitMessage) \notin DOMAIN Message

\* the userids of the rows of chatroom c with this owner flag
MemberIdsOf(c, owner) ==
    {r.userid : r \in {x \in ChatroomMember : x.chatroomid = c /\ x.owner = owner}}

\* the userids of the objects of a list
UserIdsOf(list) == {list[i].userid : i \in 1..Len(list)}

\* C23: loading a Chatroom by a chatroomid that exists succeeds; its owners
\* are the users of the owner = 1 rows of the chatroom and its members the
\* users of the owner = 0 rows, each once, the two lists disjoint and together
\* all the rows; is_owner(u) is true exactly of the users with an owner = 1
\* row; and a chatroomid that does not exist raises ChatroomNotFound.
C23_ChatroomLoadsItsMembers ==
    lastOp.op = "chatroom" =>
        IF lastOp.chatroomid \in DOMAIN Chatroom
        THEN /\ lastOp.raised = "none"
             /\ UserIdsOf(lastOp.owners) = MemberIdsOf(lastOp.chatroomid, 1)
             /\ UserIdsOf(lastOp.members) = MemberIdsOf(lastOp.chatroomid, 0)
             /\ Len(lastOp.owners) = Cardinality(MemberIdsOf(lastOp.chatroomid, 1))
             /\ Len(lastOp.members) = Cardinality(MemberIdsOf(lastOp.chatroomid, 0))
             /\ UserIdsOf(lastOp.owners) \cap UserIdsOf(lastOp.members) = {}
             /\ \A r \in RowsOf(ChatroomMember, lastOp.chatroomid) :
                   r.userid \in UserIdsOf(lastOp.owners) \cup UserIdsOf(lastOp.members)
             /\ \A u \in Snapshots(User) :
                   is_owner(lastOp.owners, u)
                      <=> MemberRow(lastOp.chatroomid, u.userid, 1) \in ChatroomMember
        ELSE lastOp.raised = "ChatroomNotFound"

====
